---- MODULE Spec2Model ----
(***************************************************************************)
(* Model of streamlit_app.py: one Streamlit script that loads every CSV    *)
(* file of the folder "data", shows key metrics, narrows the table with    *)
(* three sidebar multiselects, and renders aggregations of the narrowed    *)
(* table.  A run of the script is a straight line of steps; every user     *)
(* interaction re-runs the script from its first line in the same process. *)
(***************************************************************************)
EXTENDS Integers, Sequences, FiniteSets, TLC

\* ------------------------------------------------------------------ bounds
\* lines of the single data file of a TableInputs file system
MaxRows == 3
\* directory entries of a LoaderInputs file system
MaxFiles == 3
\* runs of the script in one process (the first run and the re-runs)
MaxRuns == 2

\* ------------------------------------------------------------------ values
\* pandas' missing value (an empty CSV cell)
NaN == "NaN"
\* Python's None: the value of df before a table is loaded
None == [none |-> TRUE]

FilterColumns == {"department", "aisle", "product_name"}
AllColumns ==
    {"user_id", "order_id", "product_name", "department", "aisle",
     "add_to_cart_order", "reordered", "order_number",
     "days_since_prior_order", "Day", "order_hour_of_day"}

\* One CSV line (an order line).  Every cell but reordered is a string; an
\* empty cell is NaN.
Line(u, o, p, d, a, r, day, h) ==
    [user_id |-> u, order_id |-> o, product_name |-> p, department |-> d,
     aisle |-> a, add_to_cart_order |-> "1", reordered |-> r,
     order_number |-> "1", days_since_prior_order |-> NaN, Day |-> day,
     order_hour_of_day |-> h]

\* The order lines the data files are made of: two departments that share an
\* aisle name, a reordered and a first-time line, and a line whose user,
\* department, aisle and product cells are empty.
RowPool ==
    {Line("u1", "o1", "Milk", "dairy", "fresh", 1, "Mon", "8"),
     Line("u1", "o2", "Eggs", "dairy", "packaged", 0, "Mon", "9"),
     Line("u2", "o3", "Kale", "produce", "fresh", 1, "Tue", "8"),
     Line(NaN, "o4", NaN, NaN, NaN, 0, "Tue", "9")}
LoaderRowPool ==
    {Line("u1", "o1", "Milk", "dairy", "fresh", 1, "Mon", "8"),
     Line("u2", "o3", "Kale", "produce", "fresh", 1, "Tue", "8")}

SeqsUpTo(S, n) == UNION {[1..k -> S] : k \in 0..n}

\* A data file as pandas sees it: a header (the column names) and lines that
\* carry a cell for each header column.
Restrict(line, cols) == [c \in cols |-> line[c]]
CsvFile(cols, lines) ==
    [csv |-> TRUE, readable |-> TRUE, columns |-> cols,
     lines |-> [i \in 1..Len(lines) |-> Restrict(lines[i], cols)]]
\* a directory entry whose name does not end in ".csv"
OtherFile == [csv |-> FALSE, readable |-> TRUE, columns |-> {}, lines |-> <<>>]
\* a ".csv" entry on which pd.read_csv raises
BadCsvFile == [csv |-> TRUE, readable |-> FALSE, columns |-> {}, lines |-> <<>>]

\* the headers that lack one of the columns the script reads
ShortHeaders == {AllColumns \ {c} : c \in AllColumns}

\* What is at the path "data": exists is os.path.exists' answer, isdir says
\* whether it is a directory, listable whether os.listdir succeeds on it, files
\* are its entries in os.listdir's order.
Folder(fl) == [exists |-> TRUE, isdir |-> TRUE, listable |-> TRUE, files |-> fl]
\* nothing at the path
NoPath == [exists |-> FALSE, isdir |-> FALSE, listable |-> FALSE, files |-> <<>>]
\* a regular file named "data": os.listdir raises NotADirectoryError
RegularFile ==
    [exists |-> TRUE, isdir |-> FALSE, listable |-> FALSE, files |-> <<>>]
\* a directory the process may not list: os.listdir raises PermissionError
UnlistableFolder(fl) ==
    [exists |-> TRUE, isdir |-> TRUE, listable |-> FALSE, files |-> fl]

\* File systems with one readable data file with every column: any lines.
TableInputs ==
    {Folder(<<CsvFile(AllColumns, ls)>>) : ls \in SeqsUpTo(RowPool, MaxRows)}
\* File systems with one readable data file that lacks a column and holds one
\* line.
SchemaInputs ==
    {Folder(<<CsvFile(h, <<l>>)>>) : h \in ShortHeaders, l \in RowPool}
\* File systems that exercise the loader: no path, a regular file in the
\* folder's place, a folder that cannot be listed (empty, or holding a data
\* file), and folders of up to MaxFiles entries, each another file, an
\* unreadable CSV, or a readable one with its header and no line, one line, or
\* two different lines.
LoaderEntries ==
    {OtherFile, BadCsvFile, CsvFile(AllColumns, <<>>)} \cup
    {CsvFile(AllColumns, <<l>>) : l \in LoaderRowPool} \cup
    {CsvFile(AllColumns, <<p[1], p[2]>>) :
        p \in {q \in LoaderRowPool \X LoaderRowPool : q[1] # q[2]}}
LoaderInputs ==
    {NoPath, RegularFile, UnlistableFolder(<<>>)} \cup
    {UnlistableFolder(<<CsvFile(AllColumns, <<l>>)>>) : l \in LoaderRowPool} \cup
    {Folder(fl) : fl \in SeqsUpTo(LoaderEntries, MaxFiles)}
Inputs == TableInputs \cup SchemaInputs \cup LoaderInputs

\* ------------------------------------------------------------------ pandas
\* A DataFrame: its columns and its rows in order, each row its index label
\* and its cells.
DataFrame(cols, rows) == [columns |-> cols, rows |-> rows]

RECURSIVE SelectSeq2(_, _, _)
\* the elements s[i] with keep[i], in order (boolean-mask indexing df[mask])
SelectSeq2(s, keep, i) ==
    IF i > Len(s) THEN <<>>
    ELSE (IF keep[i] THEN <<s[i]>> ELSE <<>>) \o SelectSeq2(s, keep, i + 1)

\* pd.read_csv(file_path): the file's lines under a fresh RangeIndex
read_csv(f) ==
    DataFrame(f.columns,
              [i \in 1..Len(f.lines) |-> [index |-> i - 1, val |-> f.lines[i]]])

RECURSIVE Flatten(_)
Flatten(ss) == IF ss = <<>> THEN <<>> ELSE Head(ss) \o Flatten(Tail(ss))

\* the elements of s without the repeats of an earlier element
RECURSIVE DropRepeats(_, _)
DropRepeats(s, seen) ==
    IF s = <<>> THEN <<>>
    ELSE IF Head(s).val \in seen THEN DropRepeats(Tail(s), seen)
    ELSE <<Head(s)>> \o DropRepeats(Tail(s), seen \cup {Head(s).val})

\* concat as pd.concat(dfs, ignore_index=True).drop_duplicates(ignore_index=True)
\* would be: equal lines collapse into the first of them
concat_drop_duplicates(dfs) ==
    LET cols == UNION {dfs[k].columns : k \in 1..Len(dfs)}
        all == DropRepeats(Flatten([k \in 1..Len(dfs) |-> dfs[k].rows]), {})
    IN DataFrame(cols,
         [i \in 1..Len(all) |->
            [index |-> i - 1,
             val |-> [c \in cols |->
                        IF c \in DOMAIN all[i].val THEN all[i].val[c] ELSE NaN]]])

\* pd.concat(dfs, ignore_index=True): the frames' rows end to end, columns the
\* union of the frames' columns (a cell a frame lacks is NaN), index 0..R-1
concat(dfs) ==
    LET cols == UNION {dfs[k].columns : k \in 1..Len(dfs)}
        all == Flatten([k \in 1..Len(dfs) |-> dfs[k].rows])
    IN DataFrame(cols,
         [i \in 1..Len(all) |->
            [index |-> i - 1,
             val |-> [c \in cols |->
                        IF c \in DOMAIN all[i].val THEN all[i].val[c] ELSE NaN]]])

\* series.dropna().unique(), as a set
Unique(t, col) ==
    {t.rows[i].val[col] : i \in 1..Len(t.rows)} \ {NaN}
\* series.nunique()
nunique(t, col) == Cardinality(Unique(t, col))

\* every value the column takes anywhere in the data set
Catalogue(col) == {l[col] : l \in RowPool} \ {NaN}
\* options as a list fixed ahead of the run would be: not read off the table
Options_catalogue(t, col) == Catalogue(col)
\* options=df[col].dropna().unique(): what a multiselect offers, and so what
\* its value can hold
Options(t, col) == Unique(t, col)

\* isin as df[df[col].isin(sel)].reset_index(drop=True) would be: the rows
\* kept are relabelled 0..n-1
isin_reset_index(t, col, sel) ==
    LET kept == SelectSeq2(t.rows,
                  [i \in 1..Len(t.rows) |-> t.rows[i].val[col] \in sel], 1)
    IN DataFrame(t.columns,
                 [i \in 1..Len(kept) |-> [index |-> i - 1, val |-> kept[i].val]])
\* df[df[col].isin(sel)]
isin(t, col, sel) ==
    DataFrame(t.columns,
              SelectSeq2(t.rows, [i \in 1..Len(t.rows) |-> t.rows[i].val[col] \in sel], 1))

\* the filter without its `if sel:` would be: an empty selection keeps no row
ApplyFilter_unguarded(t, col, sel) == isin(t, col, sel)
\* `if sel: df = df[df[col].isin(sel)]`: an empty selection leaves df alone
ApplyFilter(t, col, sel) == IF sel # {} THEN isin(t, col, sel) ELSE t

\* A ratio of two counts, kept exact; a zero denominator is pandas' NaN (the
\* mean of nothing).
Frac(n, d) == <<n, d>>

\* df.groupby("order_id")["product_name"].count().mean(): one group per
\* non-NaN order_id, each counting its non-NaN product_name cells
avg_products(t) ==
    LET counted == {i \in 1..Len(t.rows) :
                      /\ t.rows[i].val["order_id"] # NaN
                      /\ t.rows[i].val["product_name"] # NaN}
    IN Frac(Cardinality(counted), nunique(t, "order_id"))

\* the four values of the "Key Metrics" header
KeyMetrics(t) ==
    [orders |-> nunique(t, "order_id"),
     users |-> nunique(t, "user_id"),
     products |-> nunique(t, "product_name"),
     avg_products |-> avg_products(t)]

\* df.groupby([a, b]).size() pivoted on a by b with fillna(0): a count for
\* every pair of an a-value and a b-value that occur in some counted row
Crosstab(t, a, b) ==
    LET rs == {i \in 1..Len(t.rows) :
                 t.rows[i].val[a] # NaN /\ t.rows[i].val[b] # NaN}
        idx == {t.rows[i].val[a] : i \in rs}
        cols == {t.rows[i].val[b] : i \in rs}
    IN [index |-> idx, columns |-> cols,
        cell |-> [k \in idx \X cols |->
                    Cardinality({i \in rs : /\ t.rows[i].val[a] = k[1]
                                            /\ t.rows[i].val[b] = k[2]})]]

\* the index labels of t's rows, in order
IndexOf(t) == [i \in 1..Len(t.rows) |-> t.rows[i].index]
\* df.head(n) and df.tail(n), n >= 0
head(s, n) == SubSeq(s, 1, IF n < Len(s) THEN n ELSE Len(s))
tail(s, n) == SubSeq(s, (IF n < Len(s) THEN Len(s) - n ELSE 0) + 1, Len(s))

\* ------------------------------------------------------------------ loader
\* files = [f for f in os.listdir(data_folder) if f.endswith('.csv')]
CsvFiles(fs) == SelectSeq(fs.files, LAMBDA f : f.csv)

\* line 25: os.listdir(data_folder) raises an OSError (NotADirectoryError,
\* PermissionError) that no handler catches: the call stands before the try
ListdirRaises(f) == ~f.isdir \/ ~f.listable

\* line 26, `if not files:`
NoFiles(files) == files = <<>>

\* the read with its error swallowed would be: an unreadable file counts as an
\* empty frame and the loop goes on
ReadRaises_swallowed(f) == FALSE
\* line 39: pd.read_csv(file_path) raises into the `except Exception`
ReadRaises(f) == ~f.readable

\* ------------------------------------------------------------------ script
VARIABLES
    fs,                      \* what is at the path "data"
    pc,                      \* the step the run is at
    status,                  \* running | stopped (st.stop) | failed (raised) | done
    error,                   \* what ended the run: config, load, KeyError, ...
    dfs,                     \* load_data's dfs: the frames read so far
    df,                      \* the script's df
    metrics,                 \* the four key metrics shown, None before
    departments, aisles, products,    \* the multiselects' values
    avg_order_per_customer,  \* line 254, None before
    heatmap_pivot,           \* line 269, None before
    table_data_display,      \* index labels of the rows in the orders table
    runs,                    \* runs of the script started in this process
    run_reads,               \* pd.read_csv calls made by this run so far
    loads                    \* tables load_data has built in this process

vars == <<fs, pc, status, error, dfs, df, metrics, departments, aisles, products,
          avg_order_per_customer, heatmap_pivot, table_data_display,
          runs, run_reads, loads>>

\* the script's variables as a run finds them on its first line
FreshRun ==
    /\ pc = "load" /\ status = "running" /\ error = "none"
    /\ dfs = <<>> /\ df = None /\ metrics = None
    /\ departments = {} /\ aisles = {} /\ products = {}
    /\ avg_order_per_customer = None /\ heatmap_pivot = None
    /\ table_data_display = <<>>
    /\ run_reads = 0

Init ==
    /\ fs \in Inputs
    /\ FreshRun
    /\ runs = 1 /\ loads = 0

\* an exception nobody catches ends the run where it is
Raise(e) ==
    /\ status' = "failed" /\ error' = e
    /\ UNCHANGED <<fs, dfs, pc, df, metrics, departments, aisles, products,
                   avg_order_per_customer, heatmap_pivot, table_data_display,
                   runs, run_reads, loads>>

\* a step that only renders
Goto(next) ==
    /\ pc' = next
    /\ UNCHANGED <<fs, dfs, status, error, df, metrics, departments, aisles, products,
                   avg_order_per_customer, heatmap_pivot, table_data_display,
                   runs, run_reads, loads>>

\* st.error(...) then st.stop(): the run ends, load_data's locals are gone
Stop(e) ==
    /\ status' = "stopped" /\ error' = e /\ dfs' = <<>>
    /\ UNCHANGED <<fs, pc, df, metrics, departments, aisles, products,
                   avg_order_per_customer, heatmap_pivot, table_data_display,
                   runs, loads>>

\* lines 17-33 (called at line 53): the path and its CSV files are looked up.
\* A missing path is reported and stops the run (20-23); os.listdir on a path
\* that is no listable directory raises, uncaught (25); no CSV file is reported
\* and stops the run (26-29).
LoadStart ==
    /\ pc = "load" /\ status = "running"
    /\ IF ~fs.exists
       THEN Stop("config") /\ UNCHANGED run_reads
       ELSE IF ListdirRaises(fs)
       THEN Raise("OSError")
       ELSE IF NoFiles(CsvFiles(fs))
       THEN Stop("config") /\ UNCHANGED run_reads
       ELSE /\ pc' = "read" /\ dfs' = <<>>
            /\ UNCHANGED <<fs, status, error, df, metrics, departments, aisles,
                           products, avg_order_per_customer, heatmap_pivot,
                           table_data_display, runs, run_reads, loads>>

\* lines 36-40, one turn of the for loop: the next file is read and appended;
\* a read that raises lands in the except of lines 47-50
ReadFile ==
    /\ pc = "read" /\ status = "running"
    /\ Len(dfs) < Len(CsvFiles(fs))
    /\ run_reads' = run_reads + 1
    /\ LET f == CsvFiles(fs)[Len(dfs) + 1]
       IN IF ReadRaises(f)
          THEN Stop("load")
          ELSE /\ dfs' = Append(dfs, read_csv(f))
               /\ UNCHANGED <<fs, pc, status, error, df, metrics, departments,
                              aisles, products, avg_order_per_customer,
                              heatmap_pivot, table_data_display, runs, loads>>

\* lines 42-46 and 53: after the loop the frames are combined and returned
\* into df (pd.concat of no frame raises ValueError into the except)
Combine ==
    /\ pc = "read" /\ status = "running"
    /\ Len(dfs) = Len(CsvFiles(fs))
    /\ IF dfs = <<>>
       THEN Stop("load") /\ UNCHANGED run_reads
       ELSE /\ df' = concat(dfs) /\ loads' = loads + 1
            /\ dfs' = <<>> /\ pc' = "key_metrics"
            /\ UNCHANGED <<fs, status, error, metrics, departments, aisles,
                           products, avg_order_per_customer, heatmap_pivot,
                           table_data_display, runs, run_reads>>

\* lines 60-70
ShowKeyMetrics ==
    /\ pc = "key_metrics" /\ status = "running"
    /\ IF {"order_id", "user_id", "product_name"} \subseteq df.columns
       THEN /\ metrics' = KeyMetrics(df)
            /\ pc' = "filter_department"
            /\ UNCHANGED <<fs, dfs, status, error, df, departments, aisles, products,
                           avg_order_per_customer, heatmap_pivot,
                           table_data_display, runs, run_reads, loads>>
       ELSE Raise("KeyError")

\* lines 77-82
FilterDepartment ==
    /\ pc = "filter_department" /\ status = "running"
    /\ IF "department" \in df.columns
       THEN \E sel \in SUBSET Options(df, "department") :
            /\ departments' = sel
            /\ df' = ApplyFilter(df, "department", sel)
            /\ pc' = "filter_aisle"
            /\ UNCHANGED <<fs, dfs, status, error, metrics, aisles, products,
                           avg_order_per_customer, heatmap_pivot,
                           table_data_display, runs, run_reads, loads>>
       ELSE Raise("KeyError")

\* lines 84-89
FilterAisle ==
    /\ pc = "filter_aisle" /\ status = "running"
    /\ IF "aisle" \in df.columns
       THEN \E sel \in SUBSET Options(df, "aisle") :
            /\ aisles' = sel
            /\ df' = ApplyFilter(df, "aisle", sel)
            /\ pc' = "filter_product"
            /\ UNCHANGED <<fs, dfs, status, error, metrics, departments, products,
                           avg_order_per_customer, heatmap_pivot,
                           table_data_display, runs, run_reads, loads>>
       ELSE Raise("KeyError")

\* lines 91-98
FilterProduct ==
    /\ pc = "filter_product" /\ status = "running"
    /\ IF "product_name" \in df.columns
       THEN \E sel \in SUBSET Options(df, "product_name") :
            /\ products' = sel
            /\ df' = ApplyFilter(df, "product_name", sel)
            /\ pc' = "order_patterns"
            /\ UNCHANGED <<fs, dfs, status, error, metrics, departments, aisles,
                           avg_order_per_customer, heatmap_pivot,
                           table_data_display, runs, run_reads, loads>>
       ELSE Raise("KeyError")

\* lines 103-126: both charts sit behind `if col in df.columns`
OrderPatterns ==
    /\ pc = "order_patterns" /\ status = "running"
    /\ Goto("product_insights")

\* lines 131-215: product_name and department are read unguarded
ProductInsights ==
    /\ pc = "product_insights" /\ status = "running"
    /\ IF {"product_name", "department"} \subseteq df.columns
       THEN Goto("reorder")
       ELSE Raise("KeyError")

\* lines 220-247: all of it behind `if "reordered" in df.columns`
ReorderAnalysis ==
    /\ pc = "reorder" /\ status = "running"
    /\ IF "reordered" \in df.columns
          => {"department", "product_name"} \subseteq df.columns
       THEN Goto("user_behavior")
       ELSE Raise("KeyError")

\* lines 252-264: int / int, so no distinct user raises ZeroDivisionError
UserBehavior ==
    /\ pc = "user_behavior" /\ status = "running"
    /\ IF ~({"order_id", "user_id"} \subseteq df.columns) THEN Raise("KeyError")
       ELSE IF nunique(df, "user_id") = 0 THEN Raise("ZeroDivisionError")
       ELSE /\ avg_order_per_customer' =
                 Frac(nunique(df, "order_id"), nunique(df, "user_id"))
            /\ pc' = "heatmap"
            /\ UNCHANGED <<fs, dfs, status, error, df, metrics, departments, aisles,
                           products, heatmap_pivot, table_data_display,
                           runs, run_reads, loads>>

\* lines 266-275
OrderHeatmap ==
    /\ pc = "heatmap" /\ status = "running"
    /\ heatmap_pivot' =
         IF {"Day", "order_hour_of_day"} \subseteq df.columns
         THEN Crosstab(df, "Day", "order_hour_of_day")
         ELSE heatmap_pivot
    /\ pc' = "orders_table"
    /\ UNCHANGED <<fs, dfs, status, error, df, metrics, departments, aisles, products,
                   avg_order_per_customer, table_data_display, runs, run_reads, loads>>

table_cols ==
    {"user_id", "order_id", "add_to_cart_order", "reordered", "order_number",
     "days_since_prior_order", "product_name", "Day", "order_hour_of_day"}

\* lines 277-329: the orders table, then the static footer ends the run
OrdersTable ==
    /\ pc = "orders_table" /\ status = "running"
    /\ IF table_cols \subseteq df.columns
       THEN \E num_rows \in {10, 50, 100, 500, 1000, Len(df.rows)},
               display_from \in {"Top", "Bottom"} :
            /\ table_data_display' =
                 IF display_from = "Top" THEN head(IndexOf(df), num_rows)
                 ELSE tail(IndexOf(df), num_rows)
            /\ status' = "done"
            /\ UNCHANGED <<fs, dfs, pc, error, df, metrics, departments, aisles,
                           products, avg_order_per_customer, heatmap_pivot,
                           runs, run_reads, loads>>
       ELSE Raise("KeyError")

\* a user interaction (or a reload of the page), during a run or after it:
\* Streamlit ends a run in progress at its next st.* call (every step here
\* starts or ends on one; the exception it raises there is no Exception, so
\* the except of line 47 lets it through) and runs the script again from its
\* first line in the same process, where load_data, which nothing caches, is
\* called again
Rerun ==
    /\ runs < MaxRuns
    /\ runs' = runs + 1
    /\ pc' = "load" /\ status' = "running" /\ error' = "none"
    /\ dfs' = <<>> /\ df' = None /\ metrics' = None
    /\ departments' = {} /\ aisles' = {} /\ products' = {}
    /\ avg_order_per_customer' = None /\ heatmap_pivot' = None
    /\ table_data_display' = <<>>
    /\ run_reads' = 0
    /\ UNCHANGED <<fs, loads>>

Next ==
    \/ LoadStart
    \/ ReadFile
    \/ Combine
    \/ ShowKeyMetrics
    \/ FilterDepartment
    \/ FilterAisle
    \/ FilterProduct
    \/ OrderPatterns
    \/ ProductInsights
    \/ ReorderAnalysis
    \/ UserBehavior
    \/ OrderHeatmap
    \/ OrdersTable
    \/ Rerun

Spec == Init /\ [][Next]_vars

\* ------------------------------------------------------------------ claims
\* the steps of a run that come after the three filters
AfterFilters ==
    {"order_patterns", "product_insights", "reorder", "user_behavior",
     "heatmap", "orders_table"}
\* no step after the load has run in this run
NothingAfterLoad ==
    /\ pc \in {"load", "read"} /\ df = None /\ metrics = None
    /\ departments = {} /\ aisles = {} /\ products = {}
    /\ avg_order_per_customer = None /\ heatmap_pivot = None
    /\ table_data_display = <<>>

\* position of the first file on which pd.read_csv raises, 0 if none does
FirstBad(files) ==
    IF \A i \in 1..Len(files) : files[i].readable THEN 0
    ELSE CHOOSE i \in 1..Len(files) :
           /\ ~files[i].readable
           /\ \A j \in 1..(i - 1) : files[j].readable

RECURSIVE LineCount(_)
\* the lines of the files, all told
LineCount(files) ==
    IF files = <<>> THEN 0 ELSE Len(Head(files).lines) + LineCount(Tail(files))
LoadedRows == IF ListdirRaises(fs) THEN 0 ELSE LineCount(CsvFiles(fs))

\* there is no directory "data", or the directory holds no file named *.csv
ConfigError == ~fs.isdir \/ CsvFiles(fs) = <<>>
\* C1: with no directory "data", or a directory holding no file named *.csv,
\* the run halts on the reported configuration error and on nothing else: no
\* table is produced, nothing is read and no later step of the run is ever
\* executed, in the first run and in re-runs.
C1_ConfigErrorHalts ==
    ConfigError =>
        /\ NothingAfterLoad
        /\ status \in {"running", "stopped"}
        /\ status = "stopped" => error = "config"
        /\ run_reads = 0 /\ loads = 0

\* C3: a successful load returns exactly the lines of the CSV files: as many
\* rows as the files have lines, in the order the files were enumerated and,
\* within a file, in the file's order; nothing dropped, repeated or merged.
C3_LoadKeepsEveryRowInOrder ==
    (pc = "key_metrics") =>
        LET files == CsvFiles(fs)
        IN /\ Len(df.rows) = LineCount(files)
           /\ \A k \in 1..Len(files) : \A j \in 1..Len(files[k].lines) :
                LET at == LineCount(SubSeq(files, 1, k - 1)) + j
                IN \A c \in DOMAIN files[k].lines[j] :
                     df.rows[at].val[c] = files[k].lines[j][c]
\* three files loaded, the first two with the same line, the third another
C3_Witness ==
    /\ pc = "key_metrics" /\ Len(CsvFiles(fs)) = 3 /\ Len(df.rows) = 3
    /\ df.rows[1].val = df.rows[2].val
    /\ df.rows[2].val # df.rows[3].val

\* pd.read_csv raises on one of the CSV files of the folder
LoadFailure == ~ListdirRaises(fs) /\ FirstBad(CsvFiles(fs)) # 0
\* C8: when pd.read_csv fails on any one of the CSV files, wherever it stands
\* in the enumeration, the run stops on the load error: no table (none built
\* from the files read before it) reaches a later step, and no read is
\* retried: a run makes at most one read per file up to the failing one, and
\* a run that stops has made exactly those.
C8_ReadFailureHalts ==
    LoadFailure =>
        /\ NothingAfterLoad
        /\ loads = 0
        /\ status \in {"running", "stopped"}
        /\ run_reads <= FirstBad(CsvFiles(fs))
        /\ status = "stopped" =>
             error = "load" /\ run_reads = FirstBad(CsvFiles(fs))
\* the failing file is the third CSV, after two that were read and hold lines
C8_Witness ==
    /\ LoadFailure /\ FirstBad(CsvFiles(fs)) = 3
    /\ Len(CsvFiles(fs)[1].lines) > 0 /\ Len(CsvFiles(fs)[2].lines) > 0
    /\ status = "stopped" /\ error = "load" /\ run_reads = 3 /\ runs = 2

\* what the claim asks of one filter step: before and after are the table
\* going in and coming out, sel the multiselect's value
FilterContract(before, after, col, sel) ==
    IF sel = {} THEN after = before
    ELSE /\ Len(after.rows) <= Len(before.rows)
         /\ \A i \in 1..Len(after.rows) :
              /\ after.rows[i].val[col] \in sel
              /\ \E j \in 1..Len(before.rows) : before.rows[j] = after.rows[i]

\* C4: each filter step (department, aisle, product_name) with a non-empty
\* selection leaves only rows of its input whose cell in that column is
\* selected, and no more rows than its input; with an empty selection it
\* leaves its input table exactly as it was.
C4_FilterStepNarrows ==
    [][/\ (pc = "filter_department" /\ pc' = "filter_aisle")
            => FilterContract(df, df', "department", departments')
       /\ (pc = "filter_aisle" /\ pc' = "filter_product")
            => FilterContract(df, df', "aisle", aisles')
       /\ (pc = "filter_product" /\ pc' = "order_patterns")
            => FilterContract(df, df', "product_name", products')]_vars
\* all three steps taken: no department chosen, then an aisle and a product
\* that each drop rows
C4_Witness ==
    /\ pc = "order_patterns" /\ status = "running"
    /\ departments = {} /\ aisles # {} /\ products # {}
    /\ Len(df.rows) >= 1 /\ Len(df.rows) + 2 <= LoadedRows

\* the rows of a table (index label and cells), as a set
RowSet(t) == {t.rows[i] : i \in 1..Len(t.rows)}
\* any selection list for a column: the values of the data set, offered or not
Selections(col) == SUBSET Catalogue(col)

\* C5: for every loaded table and every pair of selection lists on two filter
\* columns, filtering in either order gives the same row-set, and that row-set
\* is the intersection of the two single-column filters of the table.
C5_FiltersCommute ==
    (pc = "filter_department" /\ status = "running"
        /\ FilterColumns \subseteq df.columns) =>
        \A c1 \in FilterColumns : \A c2 \in FilterColumns \ {c1} :
          \A L1 \in Selections(c1) : \A L2 \in Selections(c2) :
            LET one == ApplyFilter(df, c1, L1)
                two == ApplyFilter(df, c2, L2)
            IN /\ RowSet(ApplyFilter(one, c2, L2)) = RowSet(ApplyFilter(two, c1, L1))
               /\ RowSet(ApplyFilter(one, c2, L2)) = RowSet(one) \cap RowSet(two)
\* a table on which department {dairy} and aisle {fresh} each drop a different
\* row and together keep a row that is not the table's first
C5_Witness ==
    /\ pc = "filter_department" /\ status = "running"
    /\ FilterColumns \subseteq df.columns
    /\ LET one == ApplyFilter(df, "department", {"dairy"})
           two == ApplyFilter(df, "aisle", {"fresh"})
           both == ApplyFilter(one, "aisle", {"fresh"})
       IN /\ Len(both.rows) = 1 /\ both.rows[1].index = 2
          /\ Len(one.rows) = 2 /\ Len(two.rows) = 2

\* C10: in a run whose loaded table has a row, whatever is chosen among the
\* values the three multiselects offer (each offering the non-NaN values of its
\* column in the table as narrowed so far), the table keeps at least one row
\* through all three filters, so the table of the orders-per-customer ratio is
\* never emptied by the selections.
C10_OfferedSelectionsKeepARow ==
    (LoadedRows >= 1 /\ df # None) => Len(df.rows) >= 1
\* all three multiselects used, rows dropped, the ratio's step reached
C10_Witness ==
    /\ pc = "user_behavior" /\ status = "running"
    /\ departments # {} /\ aisles # {} /\ products # {}
    /\ Len(df.rows) >= 1 /\ Len(df.rows) < LoadedRows

\* C2: across the runs of one process the loader's result is cached after the
\* first successful load: the CSV files are read and concatenated at most once,
\* and a later run reads no file again.
C2_LoadedAtMostOnce ==
    /\ loads <= 1
    /\ (loads >= 1 /\ pc \in {"load", "read"}) => run_reads = 0

\* C6: the key metrics a run shows are those of the filtered table, the rows
\* left after that run's department, aisle and product selections.
C6_MetricsOfFilteredTable ==
    (pc \in AfterFilters /\ metrics # None) => metrics = KeyMetrics(df)

\* the day-by-hour table with no row and no column (every cell of it is zero)
EmptyOrZero(pivot) ==
    /\ pivot # None
    /\ \A k \in DOMAIN pivot.cell : pivot.cell[k] = 0

\* C7: when the filtered table has every column and no row, the run gets to
\* the day-by-hour cross-tabulation, which gives an empty (or all-zero) table:
\* the run raises nothing before or at that step.
C7_EmptyTableReachesCrosstab ==
    (pc \in AfterFilters /\ df.columns = AllColumns /\ Len(df.rows) = 0
        /\ status # "running") =>
        /\ ~(status = "failed" /\ pc \in AfterFilters \ {"orders_table"})
        /\ EmptyOrZero(heatmap_pivot)

\* C9: a run on a loaded table that has rows and lacks one of the columns the
\* script uses never ends normally: it ends in the KeyError of the missing
\* column, also when the column is Day, order_hour_of_day or reordered.
C9_MissingColumnRaisesKeyError ==
    (df # None /\ LoadedRows >= 1 /\ df.columns # AllColumns
        /\ status # "running") =>
        status = "failed" /\ error = "KeyError"
====
